---------------------------- MODULE Spec2Model ----------------------------
(***************************************************************************)
(* Model of the scraping engine of app/services/scraper.py                 *)
(* (FirecrawlScraper): the four modes scrape_single, crawl_site, map_site  *)
(* and search_and_scrape running as asyncio coroutines on ONE scraper      *)
(* instance, the retrying fetch _fetch_page behind the instance's          *)
(* semaphore, and the URL filter _should_crawl.                            *)
(*                                                                         *)
(* A URL string is a sequence of tokens: the scheme, the netloc, the path  *)
(* pieces, then an optional query token and an optional fragment token.    *)
(* An atomic action is the code between two awaits of one coroutine.       *)
(***************************************************************************)
EXTENDS Integers, Sequences, FiniteSets, TLC

(***************************************************************************)
(* Bounds of the model.                                                    *)
(***************************************************************************)
\* settings.MAX_CONCURRENT_SCRAPES is read from the environment
\* (config.py:31, default 5); the model runs the engine configured with a
\* small value so that whole batches stay explorable.
MAX_CONCURRENT_SCRAPES == 2
\* max_pages / num_results of a request range over 0..MaxPages.
MaxPages == 4
\* Failing GET attempts in a run of two jobs on one instance.
MaxFaults == 1
\* max_pages of a map ranges over 0..MaxMapPages: up to the number of
\* pages of the site.
MaxMapPages == 5

(***************************************************************************)
(* Program constants.                                                      *)
(***************************************************************************)
\* @retry(stop=stop_after_attempt(3), ...)
StopAfterAttempt == 3
\* wait_exponential(multiplier=1, min=2, max=10)
WaitMultiplier == 1
WaitMin == 2
WaitMax == 10

Range(s) == {s[i] : i \in 1..Len(s)}

Min2(a, b) == IF a < b THEN a ELSE b
Max2(a, b) == IF a > b THEN a ELSE b

RECURSIVE Pow2(_)
Pow2(n) == IF n <= 0 THEN 1 ELSE 2 * Pow2(n - 1)

\* list(set(links)): the elements of a set in an order the hash seed decides.
RECURSIVE Perms(_)
Perms(S) ==
    IF S = {} THEN {<<>>}
    ELSE UNION {{<<x>> \o p : p \in Perms(S \ {x})} : x \in S}

(***************************************************************************)
(* URL strings and what urllib / str do to them.                           *)
(***************************************************************************)
Schemes == {"https://"}
FragmentTokens == {"#top"}
QueryTokens == {"?v=1"}

\* urlparse(url).netloc: the token after the scheme; '' without a scheme.
Netloc(url) ==
    IF Len(url) >= 2 /\ url[1] \in Schemes THEN url[2] ELSE ""

\* href.split('#')[0]
RECURSIVE StripFragment(_)
StripFragment(href) ==
    IF href = <<>> \/ Head(href) \in FragmentTokens THEN <<>>
    ELSE <<Head(href)>> \o StripFragment(Tail(href))

\* re.search(pattern, url) for a literal pattern: the pattern occurs in url.
ReSearch(pattern, url) == \E i \in 1..Len(url) : url[i] = pattern

\* url.lower().endswith(ext)
LowerTok(t) == IF t = ".PDF" THEN ".pdf" ELSE t
EndsWith(url, ext) == url # <<>> /\ LowerTok(url[Len(url)]) = ext

exclude_extensions == {".pdf", ".jpg", ".png", ".gif", ".css", ".js", ".zip"}

\* The pieces of a token as str.split('/') sees them: slashes and names.
Atoms(tok) ==
    CASE tok = "/"       -> <<"/">>
      [] tok = "/about"  -> <<"/", "about">>
      [] tok = "/blog/"  -> <<"/", "blog", "/">>
      [] tok = "/files/" -> <<"/", "files", "/">>
      [] tok = "/html/"  -> <<"/", "html", "/">>
      [] tok = "/x"      -> <<"/", "x">>
      [] tok = "/hub"    -> <<"/", "hub">>
      [] OTHER           -> <<tok>>

\* urlparse(url).path: what follows the netloc, up to the query or the
\* fragment; the whole string when there is no scheme.
RECURSIVE PathAtoms(_)
PathAtoms(toks) ==
    IF toks = <<>> \/ Head(toks) \in QueryTokens \cup FragmentTokens
    THEN <<>>
    ELSE Atoms(Head(toks)) \o PathAtoms(Tail(toks))

UrlPath(url) ==
    IF Len(url) >= 2 /\ url[1] \in Schemes
    THEN PathAtoms(SubSeq(url, 3, Len(url)))
    ELSE PathAtoms(url)

\* path.rstrip('/')
RECURSIVE RStripSlash(_)
RStripSlash(p) ==
    IF p # <<>> /\ p[Len(p)] = "/" THEN RStripSlash(SubSeq(p, 1, Len(p) - 1))
    ELSE p

\* p.replace(b, '', 1): the first occurrence of b is cut out of p.
ReplaceFirst(p, b) ==
    LET occ == {i \in 1..(Len(p) - Len(b) + 1) :
                    SubSeq(p, i, i + Len(b) - 1) = b}
    IN  IF occ = {} THEN p
        ELSE LET i == CHOOSE x \in occ : \A y \in occ : x <= y
             IN  SubSeq(p, 1, i - 1) \o SubSeq(p, i + Len(b), Len(p))

\* len([x for x in p.split('/') if x]): the runs of names between slashes.
CountSegments(p) ==
    Cardinality({i \in 1..Len(p) :
                    p[i] # "/" /\ (i = 1 \/ p[i - 1] = "/")})

\* _get_url_depth
get_url_depth(url, base_url) ==
    LET base_path == RStripSlash(UrlPath(base_url))
        url_path == RStripSlash(UrlPath(url))
    IN  CountSegments(IF base_path # <<>>
                      THEN ReplaceFirst(url_path, base_path) ELSE url_path)

\* The words _classify_page_type looks for that occur in a token.
TokenWords(tok) ==
    CASE tok = "/about" -> {"about"}
      [] tok = "/blog/" -> {"blog"}
      [] OTHER -> {}

\* x in url_lower, for the words of the classifier.
UrlWords(url) == UNION {TokenWords(LowerTok(url[i])) : i \in 1..Len(url)}

\* url_lower.endswith('/')
EndsWithSlash(url) ==
    url # <<>> /\ LET a == Atoms(url[Len(url)]) IN a[Len(a)] = "/"

\* _classify_page_type
classify_page_type(url) ==
    IF UrlWords(url) \cap {"contact", "about", "team"} # {} THEN "contact"
    ELSE IF UrlWords(url) \cap {"blog", "news", "article"} # {}
    THEN "content"
    ELSE IF UrlWords(url) \cap {"product", "service", "solution"} # {}
    THEN "product"
    ELSE IF UrlWords(url) \cap {"pricing", "plan"} # {} THEN "pricing"
    ELSE IF EndsWithSlash(url) \/ EndsWith(url, ".html") THEN "page"
    ELSE "other"

(***************************************************************************)
(* The site the engine is pointed at.                                      *)
(***************************************************************************)
HostA == "a.example"
HostB == "b.example"
U_root  == <<"https://", HostA, "/">>
U_about == <<"https://", HostA, "/about">>
U_blog  == <<"https://", HostA, "/blog/">>
U_post  == <<"https://", HostA, "/blog/", "post", ".html">>
U_pdf   == <<"https://", HostA, "/files/", "doc", ".pdf">>
U_ext   == <<"https://", HostB, "/x">>
U_rootFrag == U_root \o <<"#top">>
\* A page with more links than a batch has places.
U_hub   == <<"https://", HostA, "/hub">>

U_pdfQuery == U_pdf \o <<"?v=1">>
U_pdfUpper == <<"https://", HostA, "/files/", "doc", ".PDF">>

URLs == {U_root, U_about, U_blog, U_post, U_pdf, U_ext}

\* A string that is no URL: no scheme, no netloc.
U_bad == <<"not-a-url">>

\* client.get(url) sends a request only for a URL with an http(s) scheme;
\* for any other string httpx raises UnsupportedProtocol.
WellFormed(url) == Len(url) >= 2 /\ url[1] \in Schemes

\* The anchors of the page served at a URL, each already urljoin-ed to an
\* absolute href, in document order.  about and blog both link to post (a
\* diamond), blog links back to the root (a cycle), about links to the root
\* with a fragment, post links off-domain and to a PDF.
Anchors(url) ==
    CASE StripFragment(url) = U_root  -> <<U_about, U_blog>>
      [] StripFragment(url) = U_about -> <<U_post, U_rootFrag>>
      [] StripFragment(url) = U_blog  -> <<U_post, U_root>>
      [] StripFragment(url) = U_post  -> <<U_ext, U_pdf>>
      [] StripFragment(url) = U_hub   -> <<U_about, U_blog, U_post>>
      [] OTHER -> <<>>

\* The hrefs of the result page of the search provider (.result__a).
SearchHits == <<U_about, U_ext, U_post>>
SearchUrl == <<"https://", "html.duckduckgo.com", "/html/", "?q=">>

(***************************************************************************)
(* _should_crawl                                                           *)
(***************************************************************************)
\* Pattern lists are sequences of literal patterns; None is <<>>, which
\* Python treats like the empty list (both are falsy).
Patterns == {"/blog/", "post", "/about"}

\* _should_crawl without its same-domain test.
should_crawl_anyDomain(url, base_domain, include_patterns, exclude_patterns) ==
    IF \E i \in 1..Len(exclude_patterns) :
                ReSearch(exclude_patterns[i], url) THEN FALSE
    ELSE IF include_patterns # <<>>
         THEN \E i \in 1..Len(include_patterns) :
                ReSearch(include_patterns[i], url)
    ELSE IF \E ext \in exclude_extensions : EndsWith(url, ext) THEN FALSE
    ELSE TRUE

\* _should_crawl with the include patterns tested before the exclude ones.
should_crawl_includeFirst(url, base_domain, include_patterns, exclude_patterns) ==
    IF Netloc(url) # base_domain THEN FALSE
    ELSE IF include_patterns # <<>>
         THEN \E i \in 1..Len(include_patterns) :
                ReSearch(include_patterns[i], url)
    ELSE IF \E i \in 1..Len(exclude_patterns) :
                ReSearch(exclude_patterns[i], url) THEN FALSE
    ELSE IF \E ext \in exclude_extensions : EndsWith(url, ext) THEN FALSE
    ELSE TRUE

should_crawl(url, base_domain, include_patterns, exclude_patterns) ==
    IF Netloc(url) # base_domain THEN FALSE
    ELSE IF \E i \in 1..Len(exclude_patterns) :
                ReSearch(exclude_patterns[i], url) THEN FALSE
    ELSE IF include_patterns # <<>>
         THEN \E i \in 1..Len(include_patterns) :
                ReSearch(include_patterns[i], url)
    ELSE IF \E ext \in exclude_extensions : EndsWith(url, ext) THEN FALSE
    ELSE TRUE

(***************************************************************************)
(* tenacity: stop_after_attempt and wait_exponential                       *)
(***************************************************************************)
\* stop_after_attempt one attempt short.
StopRetry_early(attempt) == attempt >= StopAfterAttempt - 1

\* stop_after_attempt(3): stop once attempt_number >= 3.
StopRetry(attempt) == attempt >= StopAfterAttempt

\* retry=retry_if_exception_type() (the default): every exception retries.
RetryOn(err) == TRUE

\* wait_exponential: max(min, min(multiplier * 2 ** (attempt - 1), max))
wait_exponential(attempt) ==
    Max2(WaitMin, Min2(WaitMultiplier * Pow2(attempt - 1), WaitMax))


(***************************************************************************)
(* State                                                                   *)
(***************************************************************************)
Jobs == {1, 2}
Modes == {"single", "crawl", "map", "search"}
\* What a GET can raise: a timeout (transient) or, through
\* response.raise_for_status(), an HTTP 404 (permanent).
Errors == {"timeout", "http404"}

VARIABLES
    visited_urls,   \* self.visited_urls of the instance
    semaphore,      \* free slots of self.semaphore
    mode,           \* per job: the mode it was started in, or "none"
    req,            \* per job: the arguments of the call
    pc,             \* per job: where its coroutine is suspended
    queue,          \* per job: the local queue (search: the hits still to scrape)
    results,        \* per job: the local results / site_map
    tasks,          \* per job: the coroutines it is awaiting
    ret,            \* per job: the returned dict, or NoRet
    obs,            \* per job: what an instrumented run observes
    faults,         \* the exceptions the network can raise in this run
    filt,           \* one application of _should_crawl
    norm,           \* one page put through the two normalizers
    http            \* per job: the POST /scrape request that runs it

vars == <<visited_urls, semaphore, mode, req, pc, queue, results, tasks, ret,
          obs, faults, filt, norm, http>>

NoRet == [returned |-> FALSE]
NoFilt == [applied |-> FALSE]
NoNorm == [applied |-> FALSE]
\* No request: the engine is called directly.
NoHttp == [j \in Jobs |-> [pc |-> "none"]]
\* gets: how many GETs were issued per URL; dequeued / dispatched: the URLs
\* taken out of the queue / handed to a fetching coroutine, in order;
\* failedPages: the pages whose coroutine ended with success False;
\* upstreamFailed: the except clause of search_and_scrape was entered;
\* cancelled: the job's coroutine was cancelled; aborted: the URLs whose
\* GET was in flight then, and was cancelled with it;
\* progress: the arguments the progress callback was called with;
\* plain: what the fan-in loop makes of the batch when it runs without a
\* callback, taken when gather returns;
\* reenqueued: the URLs that were appended to the queue while they were in
\* the visited set; undelayed: a fetch was started with no sleep since the
\* end of the fetch before it;
\* qdepth / deqdepth: for each entry of a crawl's queue / of its dequeued
\* log, the number of links that led from the seed to that entry.
NoObs == [gets |-> [u \in {} |-> 0], dequeued |-> <<>>, dispatched |-> <<>>,
          failedPages |-> {}, attemptFailed |-> FALSE,
          upstreamFailed |-> FALSE, cancelled |-> FALSE, aborted |-> {},
          progress |-> <<>>, plain |-> [taken |-> FALSE],
          reenqueued |-> {}, undelayed |-> FALSE,
          qdepth |-> <<>>, deqdepth |-> <<>>]
\* extraction_schema: a schema was passed (TRUE) or None (FALSE);
\* progress_callback: a callback was passed (TRUE) or None (FALSE).
NoReq == [url |-> <<>>, max_pages |-> 0, num_results |-> 0,
          include_patterns |-> <<>>, exclude_patterns |-> <<>>,
          extraction_schema |-> FALSE, progress_callback |-> FALSE]

Bump(f, x) ==
    IF x \in DOMAIN f THEN [f EXCEPT ![x] = @ + 1] ELSE f @@ (x :> 1)

\* Number of occurrences of x in the log s.
Count(s, x) == Cardinality({i \in 1..Len(s) : s[i] = x})

(***************************************************************************)
(* One awaited coroutine: _fetch_page ("fetch"), scrape_single ("single")  *)
(* or _crawl_page ("crawl").  call is the _fetch_page call it is in (a     *)
(* _crawl_page makes a second one), attempt / waits / errs are the retry   *)
(* state of that call.                                                     *)
(***************************************************************************)
\* depth: the depth of the queue entry the task was made for;
\* raised: the coroutine ended by raising to its caller; extracted_data and
\* lead_info: what scrape_single got from the extractor ("None", a parsed
\* "record", or the "error" record of a failed call).
NewTask(kind, url) ==
    [kind |-> kind, url |-> url, pc |-> "acquire", call |-> 1, attempt |-> 1,
     waits |-> <<>>, errs |-> <<>>, success |-> FALSE, links |-> <<>>,
     raised |-> FALSE, extracted_data |-> "None", lead_info |-> "None",
     depth |-> 0]

AllDone(j) == \A i \in 1..Len(tasks[j]) : tasks[j][i].pc = "done"

JobUnchanged == UNCHANGED <<mode, req, pc, queue, results, ret, faults, filt,
                   norm, http>>

\* The GET issued without waiting for a free slot.
Acquire_noWait(j, i) ==
    /\ i \in 1..Len(tasks[j])
    /\ tasks[j][i].pc = "acquire"
    /\ semaphore' = semaphore - 1
    /\ tasks' = [tasks EXCEPT ![j][i].pc = "get"]
    /\ obs' = [obs EXCEPT ![j].gets = Bump(@, tasks[j][i].url)]
    /\ UNCHANGED visited_urls
    /\ JobUnchanged

\* async with self.semaphore: a slot is taken; client.get(url) is issued.
Acquire(j, i) ==
    /\ i \in 1..Len(tasks[j])
    /\ tasks[j][i].pc = "acquire"
    /\ semaphore > 0
    /\ semaphore' = semaphore - 1
    /\ tasks' = [tasks EXCEPT ![j][i].pc = "get"]
    /\ obs' = [obs EXCEPT ![j].gets = Bump(@, tasks[j][i].url)]
    /\ UNCHANGED visited_urls
    /\ JobUnchanged

\* The task's state once its GET has returned a page.
AfterGetOk(t, links) ==
    IF t.kind = "fetch"
    THEN [t EXCEPT !.pc = "done", !.success = TRUE, !.waits = <<>>,
                   !.errs = <<>>]
    ELSE IF t.call = 1
    THEN [t EXCEPT !.pc = "extract", !.waits = <<>>, !.errs = <<>>]
    ELSE [t EXCEPT !.pc = "done", !.links = links, !.waits = <<>>,
                   !.errs = <<>>]

\* The GET returns 2xx: the slot is released on leaving the with block.
\* In _crawl_page's own fetch the links are list(set(links)).
GetOk(j, i) ==
    /\ i \in 1..Len(tasks[j])
    /\ tasks[j][i].pc = "get"
    /\ WellFormed(tasks[j][i].url)
    /\ semaphore' = semaphore + 1
    /\ \E links \in Perms({StripFragment(h) :
                             h \in Range(Anchors(tasks[j][i].url))}) :
         tasks' = [tasks EXCEPT ![j][i] = AfterGetOk(@, links)]
    /\ UNCHANGED <<visited_urls, obs>>
    /\ JobUnchanged

\* scrape_single without its except clause: the error of the fetch leaves
\* the coroutine.
AfterGetFail_uncaught(t, err) ==
    IF RetryOn(err) /\ ~StopRetry(t.attempt)
    THEN [t EXCEPT !.pc = "backoff", !.errs = Append(@, err),
                   !.waits = Append(@, wait_exponential(t.attempt))]
    ELSE IF t.kind = "crawl" /\ t.call = 2
    THEN [t EXCEPT !.pc = "done", !.errs = Append(@, err), !.links = <<>>]
    ELSE [t EXCEPT !.pc = "done", !.errs = Append(@, err),
                   !.success = FALSE, !.raised = TRUE]

\* The task's state once an attempt has raised err.
AfterGetFail(t, err) ==
    IF RetryOn(err) /\ ~StopRetry(t.attempt)
    THEN [t EXCEPT !.pc = "backoff", !.errs = Append(@, err),
                   !.waits = Append(@, wait_exponential(t.attempt))]
    ELSE IF t.kind = "crawl" /\ t.call = 2
    THEN \* except Exception: result["links"] = []
         [t EXCEPT !.pc = "done", !.errs = Append(@, err), !.links = <<>>]
    ELSE \* _fetch_page raises (tenacity's RetryError) to its caller;
         \* scrape_single catches it and returns success False
         [t EXCEPT !.pc = "done", !.errs = Append(@, err),
                   !.success = FALSE, !.raised = (t.kind = "fetch")]

\* The GET raises and its slot is kept.
GetFail_leaks(j, i) ==
    /\ i \in 1..Len(tasks[j])
    /\ tasks[j][i].pc = "get"
    /\ (WellFormed(tasks[j][i].url) /\ faults.limited) => faults.left > 0
    /\ faults' = [faults EXCEPT !.left =
                    IF WellFormed(tasks[j][i].url) /\ faults.limited
                    THEN @ - 1 ELSE @]
    /\ \E err \in (IF WellFormed(tasks[j][i].url) THEN faults.errors
                    ELSE {"unsupported_protocol"}) :
         tasks' = [tasks EXCEPT ![j][i] = AfterGetFail(@, err)]
    /\ obs' = [obs EXCEPT ![j].attemptFailed = TRUE]
    /\ UNCHANGED <<visited_urls, semaphore, mode, req, pc, queue, results,
                   ret, filt, norm, http>>

\* The GET raises: the slot is released, tenacity decides.  A run with
\* limited faults sees at most faults.left failing attempts of the
\* network; the GET of a string that is no URL raises every time.
GetFail(j, i) ==
    /\ i \in 1..Len(tasks[j])
    /\ tasks[j][i].pc = "get"
    /\ (WellFormed(tasks[j][i].url) /\ faults.limited) => faults.left > 0
    /\ faults' = [faults EXCEPT !.left =
                    IF WellFormed(tasks[j][i].url) /\ faults.limited
                    THEN @ - 1 ELSE @]
    /\ semaphore' = semaphore + 1
    /\ \E err \in (IF WellFormed(tasks[j][i].url) THEN faults.errors
                    ELSE {"unsupported_protocol"}) :
         tasks' = [tasks EXCEPT ![j][i] = AfterGetFail(@, err)]
    /\ obs' = [obs EXCEPT ![j].attemptFailed = TRUE]
    /\ UNCHANGED <<visited_urls, mode, req, pc, queue, results, ret, filt,
                   norm, http>>

\* tenacity's sleep between two attempts is over.
BackoffDone(j, i) ==
    /\ i \in 1..Len(tasks[j])
    /\ tasks[j][i].pc = "backoff"
    /\ tasks' = [tasks EXCEPT ![j][i].pc = "acquire",
                              ![j][i].attempt = @ + 1]
    /\ UNCHANGED <<visited_urls, semaphore, obs>>
    /\ JobUnchanged

\* _llm_extract: json.loads(content) of the completion, or, when the call
\* or the parsing raises, the dict {"error": "Extraction failed: ..."}.
llm_extract(outcome) == IF outcome = "ok" THEN "record" ELSE "error"

\* scrape_single after its fetch: text, markdown and the extractor calls
\* (_llm_extract if a schema was given, then _extract_lead_info); it returns
\* success True.  _crawl_page then fetches the page again.
Extract(j, i) ==
    /\ i \in 1..Len(tasks[j])
    /\ tasks[j][i].pc = "extract"
    /\ \E o1, o2 \in faults.llm :
         tasks' = [tasks EXCEPT ![j][i] =
            LET t == [@ EXCEPT !.success = TRUE,
                         !.extracted_data =
                            IF req[j].extraction_schema
                            THEN llm_extract(o1) ELSE "None",
                         !.lead_info = llm_extract(o2)]
            IN  IF t.kind = "single"
                THEN [t EXCEPT !.pc = "done"]
                ELSE [t EXCEPT !.pc = "acquire", !.call = 2, !.attempt = 1]]
    /\ UNCHANGED <<visited_urls, semaphore, obs>>
    /\ JobUnchanged


(***************************************************************************)
(* crawl_site                                                              *)
(***************************************************************************)
\* What a step appends to the queue of job j.
Appended(j) == SubSeq(queue'[j], Len(queue[j]) + 1, Len(queue'[j]))

\* The batch loop marking the admitted URLs only after the whole batch
\* was looked at.
AdmitBatch_markAfter(batch, visited) ==
    LET urls == SelectSeq(batch, LAMBDA u : u \notin visited)
    IN  [visited |-> visited \cup Range(urls), urls |-> urls]

\* for url in batch: if url not in self.visited_urls: add it, make a task.
RECURSIVE AdmitBatch(_, _)
AdmitBatch(batch, visited) ==
    IF batch = <<>> THEN [visited |-> visited, urls |-> <<>>]
    ELSE IF Head(batch) \in visited THEN AdmitBatch(Tail(batch), visited)
    ELSE LET rest == AdmitBatch(Tail(batch), visited \cup {Head(batch)})
         IN  [visited |-> rest.visited, urls |-> <<Head(batch)>> \o rest.urls]

\* crawl_site reporting a crawl without a page as a failure.
CrawlReturn_emptyFails(res) ==
    [returned |-> TRUE, success |-> res # <<>>, pages_crawled |-> Len(res),
     results |-> res]

\* The dict crawl_site returns.
CrawlReturn(res) ==
    [returned |-> TRUE, success |-> TRUE, pages_crawled |-> Len(res),
     results |-> res]

\* while queue and len(results) < max_pages
CrawlContinue(q, res, max_pages) == q # <<>> /\ Len(res) < max_pages

\* The depths of the entries of the queue the loop test looks at: the
\* seed alone when crawl_site has just been called.
QueueDepths(j) == IF pc[j] = "idle" THEN <<0>> ELSE obs[j].qdepth

FirstIndex(seq, x) == CHOOSE i \in 1..Len(seq) :
                        seq[i] = x /\ \A k \in 1..(i - 1) : seq[k] # x

\* One pass from the loop test to the next await: either a batch is cut
\* off the queue and its unvisited URLs become tasks for gather, or the
\* function returns.  gather of no task returns at once, and the loop body
\* goes on to its sleep.
CrawlIterate(j, q, res, visited) ==
    IF CrawlContinue(q, res, req[j].max_pages)
    THEN LET n == Min2(MAX_CONCURRENT_SCRAPES, Len(q))
             batch == SubSeq(q, 1, n)
             adm == AdmitBatch(batch, visited)
             qd == QueueDepths(j)
         IN  /\ queue' = [queue EXCEPT ![j] = SubSeq(q, n + 1, Len(q))]
             /\ visited_urls' = adm.visited
             /\ tasks' = [tasks EXCEPT ![j] =
                    [i \in 1..Len(adm.urls) |->
                        [NewTask("crawl", adm.urls[i]) EXCEPT
                            !.depth = qd[FirstIndex(batch, adm.urls[i])]]]]
             /\ pc' = [pc EXCEPT ![j] =
                    IF adm.urls = <<>> THEN "sleep" ELSE "gather"]
             /\ obs' = [obs EXCEPT ![j].dequeued = @ \o batch,
                                   ![j].dispatched = @ \o adm.urls,
                                   ![j].undelayed =
                                      @ \/ (adm.urls # <<>> /\
                                            pc[j] \notin {"idle", "sleep"}),
                                   ![j].deqdepth = @ \o SubSeq(qd, 1, n),
                                   ![j].qdepth = SubSeq(qd, n + 1, Len(qd))]
             /\ results' = [results EXCEPT ![j] = res]
             /\ UNCHANGED ret
    ELSE /\ ret' = [ret EXCEPT ![j] = CrawlReturn(res)]
         /\ pc' = [pc EXCEPT ![j] = "done"]
         /\ queue' = [queue EXCEPT ![j] = q]
         /\ results' = [results EXCEPT ![j] = res]
         /\ tasks' = [tasks EXCEPT ![j] = <<>>]
         /\ visited_urls' = visited
         /\ obs' = [obs EXCEPT ![j].qdepth = QueueDepths(j)]

\* crawl_site is called: self.visited_urls = set(), queue = [start_url].
CrawlStart(j) ==
    /\ mode[j] = "crawl"
    /\ pc[j] = "idle"
    /\ CrawlIterate(j, <<req[j].url>>, <<>>, {})
    /\ UNCHANGED <<semaphore, mode, req, faults, filt,
                   norm, http>>

\* The links of one successful page that go into the queue.
NewLinks(j, links, visited) ==
    SelectSeq(links,
        LAMBDA link :
            /\ should_crawl(link, Netloc(req[j].url),
                            req[j].include_patterns, req[j].exclude_patterns)
            /\ link \notin visited)

\* What one page of a batch adds to results and what it adds to the queue.
\* keys: the keys of the dict; the fields of an absent key hold a filler.
\* str(e) of the except clause is the text of tenacity's RetryError.
SuccessKeys ==
    {"job_id", "success", "url", "metadata", "content", "extracted_data",
     "lead_info", "scraped_at"}
FailureKeys == {"job_id", "success", "url", "error", "scraped_at"}

\* The dict scrape_single returns, with the links key _crawl_page adds to
\* a success.
PageResult(t) ==
    [url |-> t.url, success |-> t.success,
     keys |-> IF t.success
              THEN SuccessKeys \cup
                     (IF t.kind = "crawl" THEN {"links"} ELSE {})
              ELSE FailureKeys,
     error |-> IF t.success THEN <<>>
               ELSE <<"RetryError", t.errs[Len(t.errs)]>>,
     text |-> IF t.success THEN "text" ELSE "absent",
     extracted_data |-> t.extracted_data, lead_info |-> t.lead_info,
     links |-> t.links]

\* The fan-in loop putting the new links at the head of the queue.
RECURSIVE FanIn_prepends(_, _, _)
FanIn_prepends(j, ts, acc) ==
    IF ts = <<>> THEN acc
    ELSE LET t == Head(ts)
         IN  IF t.success
             THEN FanIn_prepends(j, Tail(ts),
                    [results |-> Append(acc.results, PageResult(t)),
                     queue |-> NewLinks(j, t.links, visited_urls) \o acc.queue])
             ELSE FanIn_prepends(j, Tail(ts), acc)

\* The depths of the links the fan-in loop appends: one more than the
\* depth of the page that holds the link.
RECURSIVE FanInDepths(_, _)
FanInDepths(j, ts) ==
    IF ts = <<>> THEN <<>>
    ELSE LET t == Head(ts)
         IN  IF t.success
             THEN [k \in 1..Len(NewLinks(j, t.links, visited_urls)) |->
                      t.depth + 1] \o FanInDepths(j, Tail(ts))
             ELSE FanInDepths(j, Tail(ts))

RECURSIVE FanIn(_, _, _)
FanIn(j, ts, acc) ==
    IF ts = <<>> THEN acc
    ELSE LET t == Head(ts)
         IN  IF t.success
             THEN FanIn(j, Tail(ts),
                    [results |-> Append(acc.results, PageResult(t)),
                     queue |-> acc.queue \o NewLinks(j, t.links, visited_urls)])
             ELSE FanIn(j, Tail(ts), acc)


\* gather has every result of the batch: the successes are appended to
\* results and their admissible unvisited links to the queue; then the
\* coroutine sleeps RATE_LIMIT_DELAY.
\* The fan-in step not waiting for the whole batch.
CrawlFanIn_partial(j) ==
    /\ mode[j] = "crawl"
    /\ pc[j] = "gather"
    /\ \E i \in 1..Len(tasks[j]) : tasks[j][i].pc = "done"
    /\ ~req[j].progress_callback
    /\ LET acc == FanIn(j, tasks[j],
                        [results |-> results[j], queue |-> queue[j]])
       IN  /\ results' = [results EXCEPT ![j] = acc.results]
           /\ queue' = [queue EXCEPT ![j] = acc.queue]
    /\ obs' = [obs EXCEPT
          ![j].failedPages =
              @ \cup {tasks[j][i].url : i \in
                        {k \in 1..Len(tasks[j]) : ~tasks[j][k].success}},
          ![j].reenqueued = @ \cup (Range(Appended(j)) \cap visited_urls),
          ![j].qdepth = @ \o FanInDepths(j, tasks[j])]
    /\ tasks' = [tasks EXCEPT ![j] = <<>>]
    /\ pc' = [pc EXCEPT ![j] = "sleep"]
    /\ UNCHANGED <<visited_urls, semaphore, mode, req, ret, faults, filt,
                   norm, http>>

CrawlFanIn(j) ==
    /\ mode[j] = "crawl"
    /\ pc[j] = "gather"
    /\ AllDone(j)
    /\ ~req[j].progress_callback
    /\ LET acc == FanIn(j, tasks[j],
                        [results |-> results[j], queue |-> queue[j]])
       IN  /\ results' = [results EXCEPT ![j] = acc.results]
           /\ queue' = [queue EXCEPT ![j] = acc.queue]
    /\ obs' = [obs EXCEPT
          ![j].failedPages =
              @ \cup {tasks[j][i].url : i \in
                        {k \in 1..Len(tasks[j]) : ~tasks[j][k].success}},
          ![j].reenqueued = @ \cup (Range(Appended(j)) \cap visited_urls),
          ![j].qdepth = @ \o FanInDepths(j, tasks[j])]
    /\ tasks' = [tasks EXCEPT ![j] = <<>>]
    /\ pc' = [pc EXCEPT ![j] = "sleep"]
    /\ UNCHANGED <<visited_urls, semaphore, mode, req, ret, faults, filt,
                   norm, http>>

\* The fan-in loop with a progress callback, from where it stands to its
\* next await: failures are passed over; the first success is appended,
\* its links enqueued, and progress_callback(len(results), max_pages) is
\* awaited.  rest: the batch results still to be looked at.
RECURSIVE FanInToAwait(_, _, _)
FanInToAwait(j, ts, acc) ==
    IF ts = <<>> THEN [acc EXCEPT !.called = FALSE, !.rest = <<>>]
    ELSE LET t == Head(ts)
         IN  IF t.success
             THEN [results |-> Append(acc.results, PageResult(t)),
                   queue |-> acc.queue \o NewLinks(j, t.links, visited_urls),
                   called |-> TRUE, rest |-> Tail(ts)]
             ELSE FanInToAwait(j, Tail(ts), acc)

\* The depths of the links FanInToAwait appends: those of the first
\* success among ts.
RECURSIVE FanInToAwaitDepths(_, _)
FanInToAwaitDepths(j, ts) ==
    IF ts = <<>> THEN <<>>
    ELSE IF Head(ts).success THEN FanInDepths(j, <<Head(ts)>>)
    ELSE FanInToAwaitDepths(j, Tail(ts))

\* The state the loop reaches at its next await.
FanInAdvance(j, ts) ==
    LET r == FanInToAwait(j, ts, [results |-> results[j], queue |-> queue[j],
                                  called |-> FALSE, rest |-> <<>>])
    IN  /\ results' = [results EXCEPT ![j] = r.results]
        /\ queue' = [queue EXCEPT ![j] = r.queue]
        /\ tasks' = [tasks EXCEPT ![j] = r.rest]
        /\ pc' = [pc EXCEPT ![j] = IF r.called THEN "callback" ELSE "sleep"]

\* gather has every result of the batch, in a crawl with a callback.
CrawlFanInCallback(j) ==
    /\ mode[j] = "crawl"
    /\ pc[j] = "gather"
    /\ AllDone(j)
    /\ req[j].progress_callback
    /\ FanInAdvance(j, tasks[j])
    /\ obs' = [obs EXCEPT
          ![j].failedPages =
              @ \cup {tasks[j][i].url : i \in
                        {k \in 1..Len(tasks[j]) : ~tasks[j][k].success}},
          ![j].progress =
              IF pc'[j] = "callback"
              THEN Append(@, <<Len(results'[j]), req[j].max_pages>>) ELSE @,
          ![j].plain =
              [taken |-> TRUE] @@
              FanIn(j, tasks[j], [results |-> results[j], queue |-> queue[j]]),
          ![j].reenqueued = @ \cup (Range(Appended(j)) \cap visited_urls),
          ![j].qdepth = @ \o FanInToAwaitDepths(j, tasks[j])]
    /\ UNCHANGED <<visited_urls, semaphore, mode, req, ret, faults, filt,
                   norm, http>>

\* A callback after which the loop is not resumed.
CallbackReturn_skipsRest(j) ==
    /\ mode[j] = "crawl"
    /\ pc[j] = "callback"
    /\ tasks' = [tasks EXCEPT ![j] = <<>>]
    /\ pc' = [pc EXCEPT ![j] = "sleep"]
    /\ UNCHANGED <<visited_urls, semaphore, mode, req, queue, results, ret,
                   obs, faults, filt,
                   norm, http>>

\* The awaited callback, which only looked at its arguments, returns: the
\* loop goes on with the next result of the batch.
CallbackReturn(j) ==
    /\ mode[j] = "crawl"
    /\ pc[j] = "callback"
    /\ FanInAdvance(j, tasks[j])
    /\ obs' = [obs EXCEPT
          ![j].progress =
              IF pc'[j] = "callback"
              THEN Append(@, <<Len(results'[j]), req[j].max_pages>>) ELSE @,
          ![j].reenqueued = @ \cup (Range(Appended(j)) \cap visited_urls),
          ![j].qdepth = @ \o FanInToAwaitDepths(j, tasks[j])]
    /\ UNCHANGED <<visited_urls, semaphore, mode, req, ret, faults, filt,
                   norm, http>>

\* The sleep is over: back to the loop test.
CrawlWake(j) ==
    /\ mode[j] = "crawl"
    /\ pc[j] = "sleep"
    /\ CrawlIterate(j, queue[j], results[j], visited_urls)
    /\ UNCHANGED <<semaphore, mode, req, faults, filt,
                   norm, http>>

\* The task running crawl_site is cancelled (Task.cancel(), a caller's
\* timeout): CancelledError is raised at the await the coroutine is
\* suspended in.  crawl_site has no handler for it.  At the gather, gather
\* cancels the coroutines of the batch: CancelledError is no Exception, so
\* neither tenacity nor scrape_single's except clause holds it; a GET in
\* flight is abandoned and its slot released by the with block.  The error
\* then leaves crawl_site: nothing is returned.
Cancel(j) ==
    /\ mode[j] = "crawl"
    /\ pc[j] \in {"gather", "sleep"}
    /\ LET inGet == {i \in 1..Len(tasks[j]) : tasks[j][i].pc = "get"}
       IN  /\ semaphore' = semaphore + Cardinality(inGet)
           /\ obs' = [obs EXCEPT ![j].cancelled = TRUE,
                                 ![j].aborted = {tasks[j][i].url : i \in inGet}]
    /\ tasks' = [tasks EXCEPT ![j] = <<>>]
    /\ pc' = [pc EXCEPT ![j] = "cancelled"]
    /\ UNCHANGED <<visited_urls, mode, req, queue, results, ret, faults, filt,
                   norm, http>>

(***************************************************************************)
(* map_site                                                                *)
(***************************************************************************)
\* current_url = queue.pop(0); if current_url in self.visited_urls: continue
RECURSIVE SkipVisited(_, _)
SkipVisited(q, visited) ==
    IF q = <<>> \/ Head(q) \notin visited
    THEN [skipped |-> <<>>, rest |-> q]
    ELSE LET r == SkipVisited(Tail(q), visited)
         IN  [skipped |-> <<Head(q)>> \o r.skipped, rest |-> r.rest]

\* The dict map_site returns.
MapReturn(site_map) ==
    [returned |-> TRUE, success |-> TRUE, total_pages |-> Len(site_map),
     sitemap |-> site_map]

\* One pass from the loop test to the next await: visited URLs are popped
\* and skipped, the first unvisited one is marked and fetched; with the
\* queue empty or the sitemap full the function returns.
MapIterate(j, q, site_map, visited) ==
    LET sk == SkipVisited(q, visited)
    IN  IF Len(site_map) < req[j].max_pages /\ sk.rest # <<>>
        THEN LET current_url == Head(sk.rest)
             IN  /\ queue' = [queue EXCEPT ![j] = Tail(sk.rest)]
                 /\ visited_urls' = visited \cup {current_url}
                 /\ tasks' = [tasks EXCEPT ![j] =
                                <<NewTask("fetch", current_url)>>]
                 /\ pc' = [pc EXCEPT ![j] = "gather"]
                 /\ obs' = [obs EXCEPT
                       ![j].dequeued = @ \o sk.skipped \o <<current_url>>,
                       ![j].dispatched = Append(@, current_url),
                       ![j].undelayed = @ \/ pc[j] \notin {"idle", "sleep"}]
                 /\ results' = [results EXCEPT ![j] = site_map]
                 /\ UNCHANGED ret
        ELSE /\ ret' = [ret EXCEPT ![j] = MapReturn(site_map)]
             /\ pc' = [pc EXCEPT ![j] = "done"]
             /\ queue' = [queue EXCEPT ![j] =
                    IF Len(site_map) < req[j].max_pages THEN sk.rest ELSE q]
             /\ obs' = [obs EXCEPT ![j].dequeued =
                    IF Len(site_map) < req[j].max_pages
                    THEN @ \o sk.skipped ELSE @]
             /\ results' = [results EXCEPT ![j] = site_map]
             /\ tasks' = [tasks EXCEPT ![j] = <<>>]
             /\ visited_urls' = visited

\* map_site is called: self.visited_urls = set(), queue = [url].
MapStart(j) ==
    /\ mode[j] = "map"
    /\ pc[j] = "idle"
    /\ MapIterate(j, <<req[j].url>>, <<>>, {})
    /\ UNCHANGED <<semaphore, mode, req, faults, filt,
                   norm, http>>

\* The link loop of map_site without its same-domain test.
RECURSIVE MapLinks_anyDomain(_, _, _)
MapLinks_anyDomain(hrefs, base_domain, visited) ==
    IF hrefs = <<>> THEN <<>>
    ELSE IF Head(hrefs) \notin visited
    THEN <<StripFragment(Head(hrefs))>>
            \o MapLinks_anyDomain(Tail(hrefs), base_domain, visited)
    ELSE MapLinks_anyDomain(Tail(hrefs), base_domain, visited)

\* for link in soup.find_all('a', href=True): the href is tested with its
\* fragment, and appended without it.
RECURSIVE MapLinks(_, _, _)
MapLinks(hrefs, base_domain, visited) ==
    IF hrefs = <<>> THEN <<>>
    ELSE IF Netloc(Head(hrefs)) = base_domain /\ Head(hrefs) \notin visited
    THEN <<StripFragment(Head(hrefs))>>
            \o MapLinks(Tail(hrefs), base_domain, visited)
    ELSE MapLinks(Tail(hrefs), base_domain, visited)

\* page_info
SitemapEntry(url, base_url) ==
    [url |-> url, depth |-> get_url_depth(url, base_url),
     type |-> classify_page_type(url)]

\* The fetch of current_url is over.  A page: its entry and links are
\* recorded and the coroutine sleeps RATE_LIMIT_DELAY / 2.  An exception:
\* continue, straight to the next URL.
MapFetchDone(j) ==
    /\ mode[j] = "map"
    /\ pc[j] = "gather"
    /\ AllDone(j)
    /\ LET t == tasks[j][1]
       IN  IF t.success
           THEN /\ results' = [results EXCEPT ![j] =
                                 Append(@, SitemapEntry(t.url, req[j].url))]
                /\ queue' = [queue EXCEPT ![j] =
                      @ \o MapLinks(Anchors(t.url), Netloc(req[j].url),
                                    visited_urls)]
                /\ tasks' = [tasks EXCEPT ![j] = <<>>]
                /\ pc' = [pc EXCEPT ![j] = "sleep"]
                /\ obs' = [obs EXCEPT ![j].reenqueued =
                             @ \cup (Range(Appended(j)) \cap visited_urls)]
                /\ UNCHANGED <<visited_urls, ret>>
           ELSE /\ MapIterate(j, queue[j], results[j], visited_urls)
    /\ UNCHANGED <<semaphore, mode, req, faults, filt,
                   norm, http>>

\* The sleep is over: back to the loop test.
MapWake(j) ==
    /\ mode[j] = "map"
    /\ pc[j] = "sleep"
    /\ MapIterate(j, queue[j], results[j], visited_urls)
    /\ UNCHANGED <<semaphore, mode, req, faults, filt,
                   norm, http>>

(***************************************************************************)
(* scrape_single as a job of its own                                       *)
(***************************************************************************)
SingleStart(j) ==
    /\ mode[j] = "single"
    /\ pc[j] = "idle"
    /\ tasks' = [tasks EXCEPT ![j] = <<NewTask("single", req[j].url)>>]
    /\ pc' = [pc EXCEPT ![j] = "gather"]
    /\ obs' = [obs EXCEPT ![j].dispatched = Append(@, req[j].url)]
    /\ UNCHANGED <<visited_urls, semaphore, mode, req, queue, results, ret,
                   faults, filt,
                   norm, http>>

\* The dict scrape_single returns.
SingleReturn(t) == [returned |-> TRUE] @@ PageResult(t)

SingleDone(j) ==
    /\ mode[j] = "single"
    /\ pc[j] = "gather"
    /\ AllDone(j)
    /\ ret' = [ret EXCEPT ![j] = SingleReturn(tasks[j][1])]
    /\ obs' = [obs EXCEPT ![j].failedPages =
                 IF tasks[j][1].success THEN @ ELSE @ \cup {tasks[j][1].url}]
    /\ tasks' = [tasks EXCEPT ![j] = <<>>]
    /\ pc' = [pc EXCEPT ![j] = "done"]
    /\ UNCHANGED <<visited_urls, semaphore, mode, req, queue, results,
                   faults, filt,
                   norm, http>>

(***************************************************************************)
(* search_and_scrape                                                       *)
(***************************************************************************)
\* search_and_scrape is called: the result page of the provider is fetched.
SearchStart(j) ==
    /\ mode[j] = "search"
    /\ pc[j] = "idle"
    /\ tasks' = [tasks EXCEPT ![j] = <<NewTask("fetch", req[j].url)>>]
    /\ pc' = [pc EXCEPT ![j] = "gather"]
    /\ UNCHANGED <<visited_urls, semaphore, mode, req, queue, results, ret,
                   obs, faults, filt,
                   norm, http>>

\* The except clause of search_and_scrape reporting a completed job.
SearchFailed_asSuccess(errs) ==
    [returned |-> TRUE, success |-> TRUE, error |-> errs]

\* The dicts search_and_scrape returns.
SearchReturn(res) ==
    [returned |-> TRUE, success |-> TRUE, results_found |-> Len(res),
     results |-> res]

SearchFailed(errs) == [returned |-> TRUE, success |-> FALSE, error |-> errs]

\* The for loop over the hits, from one iteration's start to its await:
\* scrape_single(url) for the next hit, or the return after the last.
SearchIterate(j, hits, res) ==
    IF hits # <<>>
    THEN /\ tasks' = [tasks EXCEPT ![j] = <<NewTask("single", Head(hits))>>]
         /\ queue' = [queue EXCEPT ![j] = Tail(hits)]
         /\ pc' = [pc EXCEPT ![j] = "gather"]
         /\ obs' = [obs EXCEPT ![j].dispatched = Append(@, Head(hits))]
         /\ results' = [results EXCEPT ![j] = res]
         /\ UNCHANGED ret
    ELSE /\ ret' = [ret EXCEPT ![j] = SearchReturn(res)]
         /\ pc' = [pc EXCEPT ![j] = "done"]
         /\ tasks' = [tasks EXCEPT ![j] = <<>>]
         /\ queue' = [queue EXCEPT ![j] = <<>>]
         /\ results' = [results EXCEPT ![j] = res]
         /\ UNCHANGED obs

\* The fetch of the result page is over.  An exception fails the job; a
\* page gives soup.select('.result__a')[:num_results].
SearchFetchDone(j) ==
    /\ mode[j] = "search"
    /\ pc[j] = "gather"
    /\ AllDone(j)
    /\ tasks[j][1].kind = "fetch"
    /\ IF tasks[j][1].success
       THEN SearchIterate(j,
                SubSeq(SearchHits, 1, Min2(req[j].num_results, Len(SearchHits))),
                <<>>)
       ELSE /\ ret' = [ret EXCEPT ![j] = SearchFailed(tasks[j][1].errs)]
            /\ pc' = [pc EXCEPT ![j] = "done"]
            /\ tasks' = [tasks EXCEPT ![j] = <<>>]
            /\ obs' = [obs EXCEPT ![j].upstreamFailed = TRUE]
            /\ UNCHANGED <<queue, results>>
    /\ UNCHANGED <<visited_urls, semaphore, mode, req, faults, filt,
                   norm, http>>

\* The loop over the hits without its sleep: the next scrape_single starts
\* as soon as the last one has returned.
SearchScrapeDone_noSleep(j) ==
    /\ mode[j] = "search"
    /\ pc[j] = "gather"
    /\ AllDone(j)
    /\ tasks[j][1].kind = "single"
    /\ SearchIterate(j, queue[j],
          IF tasks[j][1].success
          THEN Append(results[j], PageResult(tasks[j][1])) ELSE results[j])
    /\ UNCHANGED <<visited_urls, semaphore, mode, req, faults, filt,
                   norm, http>>

\* scrape_single of one hit has returned: a success is appended, then the
\* coroutine sleeps RATE_LIMIT_DELAY.
SearchScrapeDone(j) ==
    /\ mode[j] = "search"
    /\ pc[j] = "gather"
    /\ AllDone(j)
    /\ tasks[j][1].kind = "single"
    /\ results' = [results EXCEPT ![j] =
          IF tasks[j][1].success THEN Append(@, PageResult(tasks[j][1]))
          ELSE @]
    /\ obs' = [obs EXCEPT ![j].failedPages =
                 IF tasks[j][1].success THEN @ ELSE @ \cup {tasks[j][1].url}]
    /\ tasks' = [tasks EXCEPT ![j] = <<>>]
    /\ pc' = [pc EXCEPT ![j] = "sleep"]
    /\ UNCHANGED <<visited_urls, semaphore, mode, req, queue, ret, faults,
                   filt,
                   norm, http>>

\* The sleep is over: the next hit, or the return.
SearchWake(j) ==
    /\ mode[j] = "search"
    /\ pc[j] = "sleep"
    /\ SearchIterate(j, queue[j], results[j])
    /\ UNCHANGED <<visited_urls, semaphore, mode, req, faults, filt,
                   norm, http>>

(***************************************************************************)
(* Specification: one job on the instance.                                 *)
(***************************************************************************)
PatternLists == {<<>>, <<"/blog/">>, <<"post">>}

Requests(m) ==
    IF m = "crawl"
    THEN {[NoReq EXCEPT !.url = U_root, !.max_pages = k,
                        !.include_patterns = inc, !.exclude_patterns = exc] :
            k \in 0..MaxPages, inc \in {<<>>, <<"/blog/">>},
            exc \in {<<>>, <<"post">>}}
         \cup {[NoReq EXCEPT !.url = U_bad, !.max_pages = k] :
                 k \in 0..MaxPages}
    ELSE IF m = "map"
    THEN {[NoReq EXCEPT !.url = u, !.max_pages = k] :
            u \in {U_root, U_post, U_bad}, k \in 0..MaxMapPages}
    ELSE IF m = "search"
    THEN {[NoReq EXCEPT !.url = SearchUrl, !.num_results = k] :
            k \in 0..MaxPages}
    ELSE IF m = "single"
    THEN {[NoReq EXCEPT !.url = u] : u \in URLs}
    ELSE {NoReq}

\* The jobs running on the instance and the GETs they have in flight.
Running == {j \in Jobs : mode[j] # "none"}
InFlight ==
    {<<j, i>> \in Jobs \X (1..MAX_CONCURRENT_SCRAPES) :
        i <= Len(tasks[j]) /\ tasks[j][i].pc = "get"}

OneJobRequests(j, m) == Requests(m)

\* The network of a run: the exceptions a GET can raise, and how many
\* attempts can fail (any number, or at most n).
\* llm: what a call of the extractor can do (answer, or raise).
AnyNumberOf(errors) ==
    [errors |-> errors, limited |-> FALSE, left |-> 0, llm |-> {"ok"}]
AtMost(n, errors) ==
    [errors |-> errors, limited |-> TRUE, left |-> n, llm |-> {"ok"}]
ExtractorMayFail(f) == [f EXCEPT !.llm = {"ok", "fail"}]

\* The instance after __init__, with the calls about to be made on it.
InitJobs(modes, faultSets, R(_, _)) ==
    /\ faults \in faultSets
    /\ visited_urls = {}
    /\ semaphore = MAX_CONCURRENT_SCRAPES
    /\ mode \in modes
    /\ req \in [Jobs -> UNION {R(j, m) : j \in Jobs, m \in Modes \cup {"none"}}]
    /\ \A j \in Jobs : req[j] \in R(j, mode[j])
    /\ pc = [j \in Jobs |-> "idle"]
    /\ queue = [j \in Jobs |-> <<>>]
    /\ results = [j \in Jobs |-> <<>>]
    /\ tasks = [j \in Jobs |-> <<>>]
    /\ ret = [j \in Jobs |-> NoRet]
    /\ obs = [j \in Jobs |-> NoObs]

\* One job, of any mode.  A crawl meets timeouts only, which _fetch_page
\* treats like every other exception; the other modes meet both errors.
OneJob(m) == [j \in Jobs |-> IF j = 1 THEN m ELSE "none"]

Init ==
    /\ filt = NoFilt
    /\ norm = NoNorm
    /\ http = NoHttp
    /\ \/ InitJobs({OneJob("crawl")}, {AnyNumberOf({"timeout"})},
                   OneJobRequests)
       \/ InitJobs({OneJob(m) : m \in {"single", "map", "search"}},
                   {AnyNumberOf(Errors)}, OneJobRequests)

TaskStep(j, i) ==
    \/ Acquire(j, i)
    \/ GetOk(j, i)
    \/ GetFail(j, i)
    \/ BackoffDone(j, i)
    \/ Extract(j, i)

Next ==
    \E j \in Jobs :
        \/ CrawlStart(j)
        \/ CrawlFanIn(j)
        \/ CrawlWake(j)
        \/ MapStart(j)
        \/ MapFetchDone(j)
        \/ MapWake(j)
        \/ SingleStart(j)
        \/ SingleDone(j)
        \/ SearchStart(j)
        \/ SearchFetchDone(j)
        \/ SearchScrapeDone(j)
        \/ SearchWake(j)
        \/ \E i \in 1..MAX_CONCURRENT_SCRAPES : TaskStep(j, i)

Spec == Init /\ [][Next]_vars


(***************************************************************************)
(* Specification: one crawl, under the event loop's fairness.  Every       *)
(* coroutine that can run does run: the loop serves each ready task, every *)
(* GET returns or raises, every sleep ends.  The network fails up to       *)
(* StopAfterAttempt attempts, enough to fail a whole _fetch_page call.     *)
(***************************************************************************)
CrawlRequests(j, m) ==
    IF m = "crawl"
    THEN {[NoReq EXCEPT !.url = U_root, !.max_pages = k] : k \in 0..MaxPages}
    ELSE {NoReq}

InitCrawl ==
    /\ filt = NoFilt
    /\ norm = NoNorm
    /\ http = NoHttp
    /\ InitJobs({OneJob("crawl")}, {AtMost(StopAfterAttempt, {"timeout"})},
                CrawlRequests)

NextCrawl ==
    \E j \in Jobs :
        \/ CrawlStart(j)
        \/ CrawlFanIn(j)
        \/ CrawlWake(j)
        \/ \E i \in 1..MAX_CONCURRENT_SCRAPES : TaskStep(j, i)

FairCrawl == InitCrawl /\ [][NextCrawl]_vars /\ WF_vars(NextCrawl)

(***************************************************************************)
(* Specification: one crawl from a page with more links than a batch has   *)
(* places, so that the queue is not empty when links are appended.         *)
(***************************************************************************)
OrderRequests(j, m) ==
    IF m = "crawl"
    THEN {[NoReq EXCEPT !.url = U_hub, !.max_pages = k] : k \in 0..MaxPages}
    ELSE {NoReq}

InitOrder ==
    /\ filt = NoFilt
    /\ norm = NoNorm
    /\ http = NoHttp
    /\ InitJobs({OneJob("crawl")}, {AtMost(MaxFaults, {"timeout"})},
                OrderRequests)

SpecOrder == InitOrder /\ [][NextCrawl]_vars

(***************************************************************************)
(* Specification: one crawl that its caller may cancel at any await.       *)
(***************************************************************************)
InitCancel ==
    /\ filt = NoFilt
    /\ norm = NoNorm
    /\ http = NoHttp
    /\ InitJobs({OneJob("crawl")}, {AtMost(MaxFaults, {"timeout"})},
                CrawlRequests)

NextCancel ==
    \E j \in Jobs :
        \/ CrawlStart(j)
        \/ CrawlFanIn(j)
        \/ CrawlWake(j)
        \/ Cancel(j)
        \/ \E i \in 1..MAX_CONCURRENT_SCRAPES : TaskStep(j, i)

SpecCancel == InitCancel /\ [][NextCancel]_vars

(***************************************************************************)
(* Specification: one crawl, run without and with a progress callback.     *)
(***************************************************************************)
ProgressRequests(j, m) ==
    IF m = "crawl"
    THEN {[NoReq EXCEPT !.url = U_root, !.max_pages = k,
                        !.progress_callback = cb] :
            k \in 0..MaxPages, cb \in BOOLEAN}
    ELSE {NoReq}

InitProgress ==
    /\ filt = NoFilt
    /\ norm = NoNorm
    /\ http = NoHttp
    /\ InitJobs({OneJob("crawl")}, {AtMost(StopAfterAttempt, {"timeout"})},
                ProgressRequests)

NextProgress ==
    \E j \in Jobs :
        \/ CrawlStart(j)
        \/ CrawlFanIn(j)
        \/ CrawlFanInCallback(j)
        \/ CallbackReturn(j)
        \/ CrawlWake(j)
        \/ \E i \in 1..MAX_CONCURRENT_SCRAPES : TaskStep(j, i)

SpecProgress == InitProgress /\ [][NextProgress]_vars

(***************************************************************************)
(* Specification: two jobs share the instance (its visited_urls and its    *)
(* semaphore).  Job 1 crawls the root and a second batch of two pages;     *)
(* job 2 is a small job of any mode.                                       *)
(***************************************************************************)
SharedRequests(j, m) ==
    IF j = 1
    THEN {[NoReq EXCEPT !.url = U_root, !.max_pages = 2]}
    ELSE IF m = "crawl"
    THEN {[NoReq EXCEPT !.url = U_blog, !.max_pages = 1]}
    ELSE IF m = "map"
    THEN {[NoReq EXCEPT !.url = U_about, !.max_pages = 1]}
    ELSE IF m = "search"
    THEN {[NoReq EXCEPT !.url = SearchUrl, !.num_results = 1]}
    ELSE IF m = "single"
    THEN {[NoReq EXCEPT !.url = U_post]}
    ELSE {NoReq}

InitShared ==
    /\ filt = NoFilt
    /\ norm = NoNorm
    /\ http = NoHttp
    /\ InitJobs({[j \in Jobs |-> IF j = 1 THEN "crawl" ELSE m] : m \in Modes},
                {AtMost(MaxFaults, {"timeout"})}, SharedRequests)

SpecShared == InitShared /\ [][Next]_vars

(***************************************************************************)
(* Specification: a crawl and a single scrape on one instance, with more   *)
(* fetches than slots, under the event loop's fairness: a coroutine that   *)
(* can run does run, every GET returns or raises, every sleep ends.        *)
(***************************************************************************)
GovernorRequests(j, m) ==
    IF m = "crawl" THEN {[NoReq EXCEPT !.url = U_root, !.max_pages = 2]}
    ELSE IF m = "single" THEN {[NoReq EXCEPT !.url = U_post]}
    ELSE {NoReq}

InitGovernor ==
    /\ filt = NoFilt
    /\ norm = NoNorm
    /\ http = NoHttp
    /\ InitJobs({[j \in Jobs |-> IF j = 1 THEN "crawl" ELSE "single"]},
                {AtMost(MaxFaults, {"timeout"})}, GovernorRequests)

NextGovernor ==
    \E j \in Jobs :
        \/ CrawlStart(j)
        \/ CrawlFanIn(j)
        \/ CrawlWake(j)
        \/ SingleStart(j)
        \/ SingleDone(j)
        \/ \E i \in 1..MAX_CONCURRENT_SCRAPES : TaskStep(j, i)

FairGovernor == InitGovernor /\ [][NextGovernor]_vars /\ WF_vars(NextGovernor)

(***************************************************************************)
(* Specification: _should_crawl applied once to arguments drawn from       *)
(* small sets.                                                             *)
(***************************************************************************)
FilterUrls == URLs \cup {U_rootFrag, U_pdfQuery, U_pdfUpper}
FilterPatternLists ==
    {<<>>} \cup {<<x>> : x \in Patterns}
           \cup {<<x, y>> : x \in Patterns, y \in Patterns}

InitFilter ==
    /\ norm = NoNorm
    /\ http = NoHttp
    /\ InitJobs({[j \in Jobs |-> "none"]}, {AtMost(0, {})}, OneJobRequests)
    /\ filt \in [applied : {FALSE}, out : {FALSE}, url : FilterUrls,
                  base_domain : {HostA, HostB},
                  include_patterns : FilterPatternLists,
                  exclude_patterns : FilterPatternLists]

\* The call _should_crawl(url, base_domain, include_patterns, exclude_patterns).
ApplyFilter ==
    /\ ~filt.applied
    /\ filt' = [filt EXCEPT !.applied = TRUE,
                            !.out = should_crawl(filt.url, filt.base_domain,
                                                 filt.include_patterns,
                                                 filt.exclude_patterns)]
    /\ UNCHANGED <<visited_urls, semaphore, mode, req, pc, queue, results,
                   tasks, ret, obs, faults, norm, http>>

NextFilter == ApplyFilter

SpecFilter == InitFilter /\ [][NextFilter]_vars


(***************************************************************************)
(* _html_to_markdown and _extract_text.  A page is a sequence of elements  *)
(* of the body; an element has a tag, a text of its own and at most one    *)
(* child element.  A piece of output keeps the tag it came from.           *)
(***************************************************************************)
MaxElements == 2

Tags == {"p", "script", "style", "nav", "header", "footer", "aside"}
\* "  " is a text of white space only.
Texts == {"w", "  "}
ChildTags == {"p", "script", "aside"}
Children == {<<>>} \cup {<<[tag |-> t, text |-> "w"]>> : t \in ChildTags}
Elements == [tag : Tags, text : Texts, child : Children]
Pages == UNION {[1..n -> Elements] : n \in 0..MaxElements}

\* soup.find_all([...]) / tag.decompose() followed by
\* soup.get_text(strip=True): the stripped strings of the elements left,
\* in document order; strings of white space only are dropped.
RECURSIVE GetText(_, _)
GetText(html, strip) ==
    IF html = <<>> THEN <<>>
    ELSE LET el == Head(html)
             own == IF el.text = "  " THEN <<>>
                    ELSE <<[from |-> el.tag, string |-> el.text]>>
             inner == IF el.child = <<>> \/ el.child[1].tag \in strip
                      THEN <<>>
                      ELSE <<[from |-> el.child[1].tag,
                              string |-> el.child[1].text]>>
         IN  (IF el.tag \in strip THEN <<>> ELSE own \o inner)
                \o GetText(Tail(html), strip)

\* _html_to_markdown: the lines joined by a blank line.
html_to_markdown(html) ==
    [separator |-> "\n\n",
     strings |-> GetText(html, {"script", "style", "nav", "footer",
                                "header", "aside"})]

\* _extract_text: the strings joined by a space.
extract_text(html) ==
    [separator |-> " ",
     strings |-> GetText(html, {"script", "style", "nav", "footer"})]

InitNormalize ==
    /\ filt = NoFilt
    /\ http = NoHttp
    /\ InitJobs({[j \in Jobs |-> "none"]}, {AtMost(0, {})}, OneJobRequests)
    /\ norm \in [applied : {FALSE}, html : Pages]

\* scrape_single turns the page it fetched into markdown and text.
Normalize ==
    /\ ~norm.applied
    /\ norm' = [applied |-> TRUE, html |-> norm.html,
                markdown |-> html_to_markdown(norm.html),
                text |-> extract_text(norm.html)]
    /\ UNCHANGED <<visited_urls, semaphore, mode, req, pc, queue, results,
                   tasks, ret, obs, faults, filt, http>>

NextNormalize == Normalize

SpecNormalize == InitNormalize /\ [][NextNormalize]_vars

(***************************************************************************)
(* POST /scrape and GET /scrape/job/{job_id}.                              *)
(***************************************************************************)
\* request.mode is any string; "bogus" stands for every string that is
\* none of single, crawl, map.
RouteModes == {"single", "crawl", "map", "bogus"}
EngineModes == {"single", "crawl", "map"}

\* str(uuid.uuid4()): each call gives an identifier of its own.
RouteJobId(j) == <<"uuid4", "scrape_url", j>>
EngineJobId(j) == <<"uuid4", "FirecrawlScraper", j>>

\* A request that has arrived: no ScrapeJob row yet, no response yet.
NewRequest(m) ==
    [pc |-> "idle", mode |-> m,
     row |-> [stored |-> FALSE],
     response |-> [status_code |-> 0],
     lookup |-> 0]

\* The ScrapeJob row is created with status pending and committed.
RouteStart(j) ==
    /\ http[j].pc = "idle"
    /\ http' = [http EXCEPT
          ![j].row = [stored |-> TRUE, job_id |-> RouteJobId(j),
                      mode |-> http[j].mode, status |-> "pending",
                      error_message |-> "None"],
          ![j].pc = "try"]
    /\ UNCHANGED <<visited_urls, semaphore, mode, req, pc, queue, results,
                   tasks, ret, obs, faults, filt, norm>>

\* The if / elif chain on request.mode calls the engine on a fresh
\* FirecrawlScraper.
RouteDispatch(j) ==
    /\ http[j].pc = "try"
    /\ http[j].mode \in EngineModes
    /\ \/ SingleStart(j)
       \/ CrawlStart(j)
       \/ MapStart(j)

\* The else branch raises HTTPException(400) inside the try; the
\* except Exception clause of the same try catches it, marks the row
\* failed and raises HTTPException(500).
RouteInvalidMode(j) ==
    /\ http[j].pc = "try"
    /\ http[j].mode \notin EngineModes
    /\ http' = [http EXCEPT
          ![j].row.status = "failed",
          ![j].row.error_message = "Invalid mode",
          ![j].response = [status_code |-> 500, detail |-> "Invalid mode"],
          ![j].pc = "responded"]
    /\ UNCHANGED <<visited_urls, semaphore, mode, req, pc, queue, results,
                   tasks, ret, obs, faults, filt, norm>>

\* The engine has returned its dict: the row takes its status from the
\* dict's success, and the dict, which carries the job_id the engine made,
\* is the response.
RouteFinish(j) ==
    /\ http[j].pc = "try"
    /\ pc[j] = "done"
    /\ ret[j].returned
    /\ http' = [http EXCEPT
          ![j].row.status = IF ret[j].success THEN "completed" ELSE "failed",
          ![j].response = [status_code |-> 200, job_id |-> EngineJobId(j),
                           success |-> ret[j].success],
          ![j].pc = "responded"]
    /\ UNCHANGED <<visited_urls, semaphore, mode, req, pc, queue, results,
                   tasks, ret, obs, faults, filt, norm>>

\* The rows select(ScrapeJob).where(ScrapeJob.job_id == job_id) finds.
RowsWithJobId(id) ==
    {k \in Jobs : /\ http[k].pc # "none"
                  /\ http[k].row.stored
                  /\ http[k].row.job_id = id}

\* The caller asks for the job with the job_id of the result it was given.
GetScrapeJob(j) ==
    /\ http[j].pc = "responded"
    /\ http[j].response.status_code = 200
    /\ http' = [http EXCEPT
          ![j].lookup = IF RowsWithJobId(http[j].response.job_id) # {}
                        THEN 200 ELSE 404,
          ![j].pc = "looked"]
    /\ UNCHANGED <<visited_urls, semaphore, mode, req, pc, queue, results,
                   tasks, ret, obs, faults, filt, norm>>

(***************************************************************************)
(* Specification: one POST /scrape request of any mode, handled on an      *)
(* engine of its own, and the caller's look-up of the job afterwards.      *)
(***************************************************************************)
\* url: HttpUrl admits well-formed URLs only.
RouteRequests(j, m) ==
    IF m = "single" THEN {r \in Requests(m) : WellFormed(r.url)}
    ELSE IF m \in {"crawl", "map"}
    THEN {r \in Requests(m) : WellFormed(r.url) /\ r.max_pages <= 2}
    ELSE {NoReq}

InitRoute ==
    /\ filt = NoFilt
    /\ norm = NoNorm
    /\ InitJobs({OneJob(m) : m \in EngineModes \cup {"none"}},
                {AtMost(StopAfterAttempt, Errors)}, RouteRequests)
    /\ http = [j \in Jobs |->
                 IF j = 1
                 THEN NewRequest(IF mode[j] = "none" THEN "bogus" ELSE mode[j])
                 ELSE [pc |-> "none"]]

NextRoute ==
    \E j \in Jobs :
        \/ RouteStart(j)
        \/ RouteDispatch(j)
        \/ RouteInvalidMode(j)
        \/ RouteFinish(j)
        \/ GetScrapeJob(j)
        \/ CrawlFanIn(j)
        \/ CrawlWake(j)
        \/ MapFetchDone(j)
        \/ MapWake(j)
        \/ SingleDone(j)
        \/ \E i \in 1..MAX_CONCURRENT_SCRAPES : TaskStep(j, i)

SpecRoute == InitRoute /\ [][NextRoute]_vars

(***************************************************************************)
(* Specification: single scrapes and searches, with or without a schema,   *)
(* against an extractor whose calls can fail.                              *)
(***************************************************************************)
ExtractRequests(j, m) ==
    IF m = "single"
    THEN {[NoReq EXCEPT !.url = u, !.extraction_schema = sch] :
            u \in {U_root, U_post}, sch \in BOOLEAN}
    ELSE IF m = "search"
    THEN {[NoReq EXCEPT !.url = SearchUrl, !.num_results = k,
                        !.extraction_schema = sch] :
            k \in 1..2, sch \in BOOLEAN}
    ELSE {NoReq}

InitExtract ==
    /\ filt = NoFilt
    /\ norm = NoNorm
    /\ http = NoHttp
    /\ InitJobs({OneJob(m) : m \in {"single", "search"}},
                {ExtractorMayFail(AtMost(StopAfterAttempt, {"timeout"}))},
                ExtractRequests)

NextExtract ==
    \E j \in Jobs :
        \/ SingleStart(j)
        \/ SingleDone(j)
        \/ SearchStart(j)
        \/ SearchFetchDone(j)
        \/ SearchScrapeDone(j)
        \/ SearchWake(j)
        \/ \E i \in 1..MAX_CONCURRENT_SCRAPES : TaskStep(j, i)

SpecExtract == InitExtract /\ [][NextExtract]_vars

(***************************************************************************)
(* Properties                                                              *)
(***************************************************************************)
Crawls == {j \in Jobs : mode[j] = "crawl"}
Traversals == {j \in Jobs : mode[j] \in {"crawl", "map"}}
TaskIds == {<<j, i>> \in Jobs \X (1..MAX_CONCURRENT_SCRAPES) : i <= Len(tasks[j])}
NonDecreasing(s) == \A a, b \in 1..Len(s) : a <= b => s[a] <= s[b]

\* C1 (page limit): a crawl with max_pages = k never holds, and never
\* returns, more than k results.
C1_PageLimit ==
    \A j \in Crawls :
        /\ Len(results[j]) <= req[j].max_pages
        /\ ret[j].returned => ret[j].pages_crawled <= req[j].max_pages

\* C2 (dedup): over a whole crawl no URL is taken out of the queue more
\* than once.
C2_DequeuedOnce ==
    \A j \in Crawls :
        \A u \in Range(obs[j].dequeued) : Count(obs[j].dequeued, u) <= 1

\* C3 (fetch at most once): in a crawl in which no attempt has failed, at
\* most one GET was issued for each URL.
C3_FetchedOnce ==
    \A j \in Crawls :
        ~obs[j].attemptFailed =>
            \A u \in DOMAIN obs[j].gets : obs[j].gets[u] <= 1

\* C4 (domain confinement): in a crawl or a map, every URL in the queue,
\* and every URL handed to a fetch, has the netloc of the seed.
C4_DomainConfinement ==
    \A j \in Traversals :
        /\ \A u \in Range(queue[j]) : Netloc(u) = Netloc(req[j].url)
        /\ \A u \in Range(obs[j].dispatched) : Netloc(u) = Netloc(req[j].url)
        /\ \A i \in 1..Len(tasks[j]) :
              Netloc(tasks[j][i].url) = Netloc(req[j].url)

\* C4 witness: a crawl has put the links of a page with an off-domain
\* anchor through the filter.
C4_Witness ==
    \E j \in Crawls :
        /\ pc[j] = "sleep"
        /\ \E k \in 1..Len(results[j]) : U_ext \in Range(results[j][k].links)

\* C5 (exclude before include): for a same-domain URL that an exclude
\* pattern matches, _should_crawl returns False whatever the include
\* patterns.
C5_ExcludePrecedence ==
    (/\ filt.applied
     /\ Netloc(filt.url) = filt.base_domain
     /\ \E i \in 1..Len(filt.exclude_patterns) :
            ReSearch(filt.exclude_patterns[i], filt.url))
    => filt.out = FALSE

\* C5 witness: the filter was applied to a same-domain URL matched by an
\* exclude pattern and by an include pattern.
C5_Witness ==
    /\ filt.applied
    /\ Netloc(filt.url) = filt.base_domain
    /\ \E i \in 1..Len(filt.exclude_patterns) :
           ReSearch(filt.exclude_patterns[i], filt.url)
    /\ \E i \in 1..Len(filt.include_patterns) :
           ReSearch(filt.include_patterns[i], filt.url)

\* C6 (retry exhaustion): no call makes more than 3 attempts, and a
\* _fetch_page call whose attempts all timed out has ended only after
\* exactly 3 attempts, with an error for its caller (scrape_single answers
\* success False) and with non-decreasing waits between the attempts.
C6_RetryExhaustion ==
    \A id \in TaskIds :
        LET t == tasks[id[1]][id[2]]
        IN  /\ t.attempt <= StopAfterAttempt
            /\ (/\ t.pc = "done"
                /\ t.errs # <<>>
                /\ \A k \in 1..Len(t.errs) : t.errs[k] = "timeout")
               => /\ Len(t.errs) = StopAfterAttempt
                  /\ t.attempt = StopAfterAttempt
                  /\ Len(t.waits) = StopAfterAttempt - 1
                  /\ NonDecreasing(t.waits)
                  /\ t.call = 1 => ~t.success

\* C6 witness: a call has ended after timeouts only.
C6_Witness ==
    \E id \in TaskIds :
        LET t == tasks[id[1]][id[2]]
        IN  /\ t.pc = "done"
            /\ t.errs # <<>>
            /\ \A k \in 1..Len(t.errs) : t.errs[k] = "timeout"

\* C7 (permanent failures are not retried): an attempt that failed with
\* HTTP 404 is the only attempt of its call: the call has ended, without a
\* wait.
C7_PermanentNotRetried ==
    \A id \in TaskIds :
        LET t == tasks[id[1]][id[2]]
        IN  \A k \in 1..Len(t.errs) :
                t.errs[k] = "http404" =>
                    /\ k = 1
                    /\ Len(t.errs) = 1
                    /\ t.pc = "done"
                    /\ t.waits = <<>>

\* C8 (concurrency bound): over all the jobs of the instance, the GETs in
\* flight are never more than MAX_CONCURRENT_SCRAPES, and the free slots of
\* the semaphore are what the GETs in flight leave.
C8_ConcurrencyBound ==
    /\ Cardinality(InFlight) <= MAX_CONCURRENT_SCRAPES
    /\ semaphore = MAX_CONCURRENT_SCRAPES - Cardinality(InFlight)

\* C8 witness: every slot is taken by GETs of two jobs and a further fetch
\* waits for admission.
C8_Witness ==
    /\ semaphore = 0
    /\ Cardinality({id[1] : id \in InFlight}) = 2
    /\ \E id \in TaskIds : tasks[id[1]][id[2]].pc = "acquire"

\* C9 (termination): every crawl returns, with success True.
C9_CrawlTerminates ==
    \A j \in Jobs :
        mode[j] = "crawl" => <>(ret[j].returned /\ ret[j].success)

\* C9 witness: a crawl whose every fetch failed has returned, with no
\* result.
C9_Witness ==
    \E j \in Crawls :
        /\ ret[j].returned
        /\ ret[j].success
        /\ ret[j].pages_crawled = 0
        /\ obs[j].failedPages # {}

\* C10 (failures are recorded): the result a crawl or a search returns
\* holds an entry for every page whose fetch failed.
C10_FailuresRecorded ==
    \A j \in Jobs :
        (mode[j] \in {"crawl", "search"} /\ ret[j].returned /\ ret[j].success)
        => \A u \in obs[j].failedPages :
              \E k \in 1..Len(ret[j].results) :
                  ret[j].results[k].url = u /\ ~ret[j].results[k].success

\* The page results in the state: what each finished scrape_single or
\* _crawl_page coroutine hands to its caller, what a job has collected,
\* and what a single-mode job has returned.
FinishedScrapes ==
    {tasks[id[1]][id[2]] : id \in
        {x \in TaskIds : /\ tasks[x[1]][x[2]].kind \in {"single", "crawl"}
                         /\ tasks[x[1]][x[2]].pc = "done"}}
PageResults ==
    {PageResult(t) : t \in FinishedScrapes}
        \cup UNION {Range(results[j]) : j \in {k \in Jobs : mode[k] \in {"crawl", "search"}}}
        \cup {ret[j] : j \in {k \in Jobs : mode[k] = "single" /\ ret[k].returned}}

\* C11 (failure results): scrape_single and _crawl_page never end by
\* raising, a call whose fetch failed ends with success False, and every
\* result with success False has an error description and no content, no
\* metadata and no links.
C11_FailureResult ==
    /\ \A t \in FinishedScrapes :
          /\ ~t.raised
          /\ (t.call = 1 /\ t.errs # <<>>) => ~t.success
    /\ \A r \in PageResults :
          ~r.success =>
              /\ "error" \in r.keys
              /\ r.error # <<>>
              /\ r.keys \cap {"content", "metadata", "links"} = {}
              /\ r.links = <<>>

\* C11 witness: a scrape_single call has ended after its fetch failed.
C11_Witness ==
    \E t \in FinishedScrapes : t.call = 1 /\ t.errs # <<>> /\ ~t.success

\* C12 (single-mode links): a successful single-mode scrape returns a text
\* and, under the key links, the anchors of the page as absolute URLs.
C12_SingleLinks ==
    \A j \in Jobs :
        (mode[j] = "single" /\ ret[j].returned /\ ret[j].success)
        => /\ ret[j].text # "absent"
           /\ "links" \in ret[j].keys
           /\ Range(ret[j].links) = Range(Anchors(ret[j].url))

\* C18 (extraction failure is absent data): a page whose fetch succeeded
\* has success True whatever the extractor did, and neither extracted_data
\* nor lead_info holds a record that stands for a failed extractor call.
C18_ExtractionFailureAbsent ==
    \A t \in FinishedScrapes :
        t.errs = <<>> =>
            /\ t.success
            /\ t.extracted_data \in {"None", "record"}
            /\ t.lead_info \in {"None", "record"}

Searches == {j \in Jobs : mode[j] = "search"}

\* C13 (upstream search failure): a search whose fetch of the result page
\* failed returns success False with an error and has started no
\* scrape_single; a search returns success False in that case only.
C13_UpstreamSearchFailure ==
    \A j \in Searches :
        /\ (\E i \in 1..Len(tasks[j]) :
                /\ tasks[j][i].kind = "fetch"
                /\ tasks[j][i].pc = "done"
                /\ ~tasks[j][i].success)
           => obs[j].dispatched = <<>>
        /\ obs[j].upstreamFailed
           => /\ ret[j].returned
              /\ ~ret[j].success
              /\ ret[j].error # <<>>
              /\ obs[j].dispatched = <<>>
              /\ results[j] = <<>>
        /\ (ret[j].returned /\ ~ret[j].success) => obs[j].upstreamFailed

\* C13 witness: a search has returned after the fetch of its result page
\* failed every attempt.
C13_Witness ==
    \E j \in Searches : obs[j].upstreamFailed /\ ret[j].returned

\* C14 (search is serialized): a search never awaits more than one
\* scrape_single, starts at most num_results of them, and starts each one
\* but the first out of the sleep that followed the previous one.
C14_SearchSerialized ==
    /\ [](\A j \in Searches :
            /\ Len(tasks[j]) <= 1
            /\ Len(obs[j].dispatched) <= req[j].num_results)
    /\ [][\A j \in Searches :
            (/\ obs[j].dispatched # <<>>
             /\ Len(obs'[j].dispatched) > Len(obs[j].dispatched))
            => /\ pc[j] = "sleep"
               /\ tasks[j] = <<>>
               /\ Len(obs'[j].dispatched) = Len(obs[j].dispatched) + 1]_vars

\* C14 witness: a search is scraping its second hit.
C14_Witness ==
    \E j \in Searches :
        /\ Len(obs[j].dispatched) >= 2
        /\ Len(tasks[j]) = 1
        /\ tasks[j][1].pc = "get"

Maps == {j \in Jobs : mode[j] = "map"}
PageTypes == {"contact", "content", "product", "pricing", "page", "other"}
EntryUrls(site_map) == {site_map[k].url : k \in 1..Len(site_map)}

\* The same-domain URLs reachable from a seed over the anchors of the site.
RECURSIVE Closure(_, _, _)
Closure(frontier, seen, domain) ==
    LET new == {v \in {StripFragment(h) :
                          h \in UNION {Range(Anchors(u)) : u \in frontier}} :
                    Netloc(v) = domain} \ seen
    IN  IF new = {} THEN seen ELSE Closure(new, seen \cup new, domain)
Reachable(seed) == Closure({seed}, {seed}, Netloc(seed))

C16_CancelAtBoundary ==
    \A j \in Crawls : obs[j].cancelled => obs[j].aborted = {}

\* C17 (job isolation): the visited set a running crawl or map works with
\* holds exactly the URLs that job has dispatched, and no job dispatches
\* a URL twice.
C17_JobIsolation ==
    \A j \in Traversals :
        /\ pc[j] \in {"gather", "sleep"}
           => visited_urls = Range(obs[j].dispatched)
        /\ \A u \in Range(obs[j].dispatched) :
              Count(obs[j].dispatched, u) <= 1

\* C19 (invalid seed): a crawl or a map started on a malformed seed issues
\* no GET and returns success False; on any other seed it returns success
\* True whatever its pages did.
C19_InvalidSeed ==
    \A j \in Traversals :
        IF WellFormed(req[j].url)
        THEN ret[j].returned => ret[j].success
        ELSE /\ DOMAIN obs[j].gets = {}
             /\ ret[j].returned => ~ret[j].success

\* C20 (the progress sink is inert): when the fan-in of a batch is over in
\* a crawl with a callback, results and queue are what the loop without a
\* callback makes of the same batch, so that the next batch and the
\* returned results are the same; the callback saw every count once.
C20_ProgressInert ==
    \A j \in Crawls :
        /\ (req[j].progress_callback /\ pc[j] = "sleep" /\ obs[j].plain.taken)
           => /\ results[j] = obs[j].plain.results
              /\ queue[j] = obs[j].plain.queue
        /\ (req[j].progress_callback /\ pc[j] \in {"sleep", "done"})
           => obs[j].progress =
                 [k \in 1..Len(results[j]) |-> <<k, req[j].max_pages>>]
        /\ ~req[j].progress_callback => obs[j].progress = <<>>

\* C20 witness: a crawl with a callback has finished the fan-in of a batch
\* with two successes, the callback awaited after each.
C20_Witness ==
    \E j \in Crawls :
        /\ req[j].progress_callback
        /\ pc[j] = "sleep"
        /\ Len(results[j]) = 3
        /\ Len(obs[j].progress) = 3

\* C21 (mark-visited at admission): every URL a crawl or a map has handed
\* to a fetching coroutine is in the visited set from that moment on, and
\* no URL is handed out twice, however often the queue held it.
C21_MarkVisitedAtAdmission ==
    \A j \in Traversals :
        /\ \A i \in 1..Len(tasks[j]) : tasks[j][i].url \in visited_urls
        /\ Range(obs[j].dispatched) \subseteq visited_urls
        /\ \A u \in Range(obs[j].dispatched) :
              Count(obs[j].dispatched, u) = 1

\* C21 witness: a crawl has taken the same URL out of its queue twice and
\* dispatched it once.
C21_Witness ==
    \E j \in Crawls :
        \E u \in Range(obs[j].dequeued) :
            /\ Count(obs[j].dequeued, u) = 2
            /\ Count(obs[j].dispatched, u) = 1

\* C22 (no re-enqueue of visited URLs): no URL is appended to the queue of
\* a crawl or a map while it is in the visited set.
C22_NoReenqueueVisited ==
    \A j \in Traversals : obs[j].reenqueued = {}

\* C25 (politeness delay): a crawl or a map starts no fetch without a
\* sleep since the end of the batch, or of the fetch, before it.
C25_PolitenessDelay ==
    \A j \in Traversals : ~obs[j].undelayed

IsPrefix(a, b) == Len(a) <= Len(b) /\ SubSeq(b, 1, Len(a)) = a

\* C23 (FIFO, breadth first): in a crawl every step leaves the sequence
\* "URLs taken out, then URLs waiting" as it is or extends it at its end,
\* so URLs leave the queue in the order they were appended; and along that
\* sequence the discovery depth never decreases.
C23_FifoOrder ==
    /\ [](\A j \in Crawls :
            /\ Len(obs[j].qdepth) = Len(queue[j])
            /\ Len(obs[j].deqdepth) = Len(obs[j].dequeued)
            /\ NonDecreasing(obs[j].deqdepth \o obs[j].qdepth))
    /\ [][\A j \in Crawls :
            /\ IsPrefix(obs[j].dequeued, obs'[j].dequeued)
            /\ IsPrefix(obs[j].dequeued \o queue[j],
                        obs'[j].dequeued \o queue'[j])]_vars

\* C23 witness: links of depth 2 were appended behind a waiting URL of
\* depth 1, and the URL of depth 1 has left the queue before them.
C23_Witness ==
    \E j \in Crawls :
        /\ Len(obs[j].deqdepth) >= 4
        /\ obs[j].deqdepth[4] = 1
        /\ obs[j].qdepth # <<>>
        /\ obs[j].qdepth[1] = 2

\* C24 (batch barrier): while a task of a crawl's batch has not completed,
\* no step changes the crawl's results, its queue or the visited set, and
\* none dispatches a URL or replaces the batch: the crawl stays in gather
\* with the same tasks for the same URLs.
C24_BatchBarrier ==
    [][\A j \in Crawls :
          (pc[j] = "gather" /\ ~AllDone(j)) =>
              /\ results'[j] = results[j]
              /\ queue'[j] = queue[j]
              /\ visited_urls' = visited_urls
              /\ obs'[j].dispatched = obs[j].dispatched
              /\ pc'[j] = "gather"
              /\ Len(tasks'[j]) = Len(tasks[j])
              /\ \A i \in 1..Len(tasks[j]) :
                    tasks'[j][i].url = tasks[j][i].url]_vars

\* C24 witness: one task of a batch has succeeded with links to enqueue
\* and another of the same batch is still waiting for its response; the
\* finished page is in neither the results nor the queue.
C24_Witness ==
    \E j \in Crawls :
        /\ pc[j] = "gather"
        /\ \E i, k \in 1..Len(tasks[j]) :
              /\ tasks[j][i].pc = "done"
              /\ tasks[j][i].success
              /\ NewLinks(j, tasks[j][i].links, visited_urls) # <<>>
              /\ tasks[j][k].pc = "get"
              /\ \A r \in 1..Len(results[j]) :
                    results[j][r].url # tasks[j][i].url

\* The path of the URL ends in a listed non-content extension.
PathHasExcludedExtension(url) ==
    LET p == UrlPath(url)
    IN  p # <<>> /\ LowerTok(p[Len(p)]) \in exclude_extensions

\* C26 (non-content extension rule): with no include patterns and no
\* matching exclude pattern, _should_crawl returns False for a same-domain
\* URL exactly when the URL's path ends in a listed non-content extension,
\* a query string after the path making no difference.
C26_ExtensionRule ==
    (/\ filt.applied
     /\ Netloc(filt.url) = filt.base_domain
     /\ filt.include_patterns = <<>>
     /\ \A i \in 1..Len(filt.exclude_patterns) :
            ~ReSearch(filt.exclude_patterns[i], filt.url))
    => (filt.out = ~PathHasExcludedExtension(filt.url))

\* C27 (normalizer strip set): the text of a page has no string from a
\* script, style, nav, header, footer or aside element, and the markdown
\* is made of the same strings as the text.
C27_StripSet ==
    norm.applied =>
        /\ \A i \in 1..Len(norm.text.strings) :
              norm.text.strings[i].from \notin
                  {"script", "style", "nav", "header", "footer", "aside"}
        /\ norm.markdown.strings = norm.text.strings

Answered == {j \in Jobs : http[j].pc \in {"responded", "looked"}}

\* C28 (unknown mode is a client error): a request whose mode is none of
\* single, crawl, map is answered with status 400, nothing was fetched or
\* dispatched for it, and its row has status failed.
C28_UnknownMode400 ==
    \A j \in Answered :
        http[j].mode \notin EngineModes =>
            /\ http[j].response.status_code = 400
            /\ obs[j] = NoObs
            /\ tasks[j] = <<>>
            /\ http[j].row.status = "failed"

\* C29 (job identifier consistency): the job_id of a returned result is
\* the job_id of the row stored for the request, the look-up with it
\* finds the row, and the row's status is completed exactly when the
\* result has success true, failed otherwise.
C29_JobIdConsistency ==
    \A j \in Answered :
        /\ http[j].row.status \in {"completed", "failed"}
        /\ http[j].response.status_code = 200 =>
              /\ http[j].response.job_id = http[j].row.job_id
              /\ (http[j].row.status = "completed") = http[j].response.success
              /\ http[j].pc = "looked" => http[j].lookup = 200

\* The tasks that hold a slot: those between entering and leaving the
\* with block of an attempt.
Holding == {id \in TaskIds : tasks[id[1]][id[2]].pc = "get"}

\* C30 (no slot leak, no deadlock): the slots taken are those of the
\* attempts in progress, one each, so a task waiting for admission, in
\* backoff or finished holds none, and with no attempt in progress every
\* slot is free; and every fetch waiting for admission is admitted.
C30_NoSlotLeak ==
    /\ [](/\ semaphore >= 0
          /\ semaphore + Cardinality(Holding) = MAX_CONCURRENT_SCRAPES
          /\ Holding = {} => semaphore = MAX_CONCURRENT_SCRAPES)
    /\ \A j \in Jobs : \A i \in 1..MAX_CONCURRENT_SCRAPES :
          (i <= Len(tasks[j]) /\ tasks[j][i].pc = "acquire")
              ~> (i <= Len(tasks[j]) /\ tasks[j][i].pc = "get")

\* C30 witness: a fetch whose attempt failed has given its slot back, has
\* waited out its backoff and asks for a slot again while every slot is
\* taken by other fetches.
C30_Witness ==
    /\ semaphore = 0
    /\ \E id \in TaskIds :
          /\ tasks[id[1]][id[2]].pc = "acquire"
          /\ tasks[id[1]][id[2]].attempt >= 2

=============================================================================
